---- MODULE Spec2Model ----
(***************************************************************************)
(* Model of src/src/service.js: the in-memory collections users, listings  *)
(* and bookings, the business operations that are written as               *)
(* resourceLock(callback) calls, the identifier allocator generateId, and  *)
(* the persistence functions loadData, update, save and reset.             *)
(*                                                                         *)
(* JavaScript runs one task at a time.  resourceLock calls                 *)
(* callback(resolve, reject) inside the Promise executor, so the body of   *)
(* every business operation runs to its end at the moment of the call: one *)
(* call is one step.  The only suspension points of the file are the       *)
(* awaits of loadData, update and reset.                                   *)
(***************************************************************************)
EXTENDS Integers, Sequences, FiniteSets, TLC

VARIABLES
    users,                \* service.js:24  email -> account record
    listings,             \* service.js:25  listing id -> listing record
    bookings,             \* service.js:26  booking id -> booking record
    hasRedisCredentials,  \* service.js:12  is the remote backend configured
    loadPc,               \* position of the loadData() call of service.js:61
    remoteData,           \* value of the key 'airbrb_data' in the remote store
    fileData,             \* content of ./database.json
    saveQueue,            \* tasks of lock key 'saveData'; the head holds the lock
    ret,                  \* the last business call and how its promise settled
    saveRet,              \* the last settled save() / reset() promise
    resetRun,             \* history: reset() calls completed in a row (up to 2)
    unsaved,              \* history: a mutation was made and save() not called since
    lockLog               \* history: the calls of resourceLock and the callbacks run

vars == <<users, listings, bookings, hasRedisCredentials, loadPc,
          remoteData, fileData, saveQueue, ret, saveRet, resetRun,
          unsaved, lockLog>>

memory == <<users, listings, bookings>>
stores == <<hasRedisCredentials, loadPc, remoteData, fileData, saveRet>>

(***************************************************************************)
(* Bounds of the model.                                                    *)
(***************************************************************************)
\* stands for the default max = 999999999 of generateId: ids are drawn from
\* floor(IdMax / 10) .. IdMax
IdMax == 1
\* most tasks of lock key 'saveData' at a time (the running one included)
MaxQueue == 3
\* most calls of resourceLock that the history lockLog records
MaxCalls == 3
\* most reviews of one listing
MaxReviews == 1

(***************************************************************************)
(* JavaScript values.                                                      *)
(***************************************************************************)
UNDEF == "undefined"
NULL == "null"
\* an absent array argument (arrays are sequences, so absence is one too)
UNDEF_ARRAY == <<"undefined">>

\* the values that `if (x)` and `!x` treat as false
Falsy == {UNDEF, NULL, ""}
Truthy(x) == x \notin Falsy

\* strings that Number() converts to a number; isNaN is true of the others
NumericStrings == {"100", "-5"}
NegativeStrings == {"-5"}
isNaN(x) == x \notin NumericStrings

\* a number and the string of its decimal digits are different values
Num(n) == [type |-> "number", v |-> n]
Str(n) == [type |-> "string", v |-> n]
\* Number.prototype.toString
toString(x) == Str(x.v)
\* Array.prototype.includes: SameValueZero, so a number never equals a string
includes(list, x) == \E y \in list : y.type = x.type /\ y.v = x.v
\* Object.keys
keys(obj) == DOMAIN obj

\* obj[k] = v
Put(obj, k, v) == [x \in (DOMAIN obj) \cup {k} |-> IF x = k THEN v ELSE obj[x]]
\* delete obj[k]
Delete(obj, k) == [x \in (DOMAIN obj) \ {k} |-> obj[x]]
\* {}
EmptyObj == [x \in {} |-> UNDEF]

(***************************************************************************)
(* Inputs of the calls.                                                    *)
(***************************************************************************)
Emails == {"a@x.com", "b@x.com"}
Passwords == {"pw", "pw2"}
Names == {"Ann"}
Titles == {"Loft", "Den"}
Availabilities == {<<>>, <<"2026-11">>}
Reviews == {"good"}
Timestamps == {"2026-11-02T00:00:00.000Z"}
\* which one argument of a call is missing or malformed
AddListingFaults == {"none", "address", "price", "priceNaN", "thumbnail", "metadata"}
BookingFaults == {"none", "dateRange", "totalPrice", "totalPriceNaN", "totalPriceNegative"}

(***************************************************************************)
(* Identifier allocator, service.js:109-124.                               *)
(***************************************************************************)
\* the values Math.round(Math.random() * (max - floor(max/10)) + floor(max/10)) takes
randNum(max) == {Num(n) : n \in (max \div 10) .. max}

\* the draws on which the while loop of generateId stops, as strings
generateId(currentList, max) ==
    {toString(R) : R \in {r \in randNum(max) : ~includes(currentList, r)}}

newListingId == generateId(keys(listings), IdMax)
newBookingId == generateId(keys(bookings), IdMax)

\* ids a caller can pass (they arrive as strings)
IdArgs == {Str(n) : n \in (IdMax \div 10) .. IdMax}

(***************************************************************************)
(* Settlement of a business call.  resolve / reject settle the promise;    *)
(* a call after the first has no effect, so the first one is recorded.     *)
(***************************************************************************)
InputError == "InputError"
TypeError == "TypeError"

Settled(op, status, kind, val) ==
    ret' = [op |-> op, status |-> status, kind |-> kind, val |-> val]

resolve(op, val) == Settled(op, "resolved", "value", val)
reject(op, msg) == Settled(op, "rejected", InputError, msg)
\* reading a property of undefined throws inside the executor: the promise
\* is rejected with the TypeError
throwTypeError(op) == Settled(op, "rejected", TypeError, "TypeError")

\* a reset() that has been called and has not emptied the memory yet
ResetInProgress(e) == e.op = "reset" /\ e.pc \in {"queued", "awaitSet", "resolved"}
\* history: a mutation was acknowledged while these resets were in progress
MarkMutated(q) ==
    [i \in DOMAIN q |-> IF ResetInProgress(q[i]) THEN [q[i] EXCEPT !.mutated = TRUE] ELSE q[i]]

(***************************************************************************)
(* resourceLock (service.js:112-115).  The Promise executor evaluates      *)
(* callback(resolve, reject) first, so the body of the operation runs at   *)
(* the call; its result, undefined, is what lock.acquire('resourceLock',   *)
(* ...) is given, and async-lock throws "You must pass a function to       *)
(* execute" into a promise that is already settled.  No task is ever       *)
(* queued under the key 'resourceLock'.  lockLog records, for the first    *)
(* room calls, the operations in the order of the calls and in the order   *)
(* in which their callbacks ran.                                           *)
(***************************************************************************)
LockLog(room) == [submitted |-> <<>>, executed |-> <<>>, room |-> room]
NoLog == LockLog(0)

Recorded(log, op, ran) ==
    IF Len(log.submitted) < log.room
    THEN [log EXCEPT !.submitted = Append(@, op),
                     !.executed = IF ran THEN Append(@, op) ELSE @]
    ELSE log

\* a resourceLock that queues the callback and never runs it
resourceLock_NeverRuns(op, callback) ==
    /\ lockLog' = Recorded(lockLog, op, FALSE)
    /\ UNCHANGED <<memory, stores, saveQueue, ret, resetRun, unsaved>>

resourceLock(op, callback) ==
    /\ callback
    /\ lockLog' = Recorded(lockLog, op, TRUE)

\* what a business call leaves alone
Mutation ==
    saveQueue' = MarkMutated(saveQueue) /\ resetRun' = 0 /\ unsaved' = TRUE /\ UNCHANGED stores
NoMutation == resetRun' = 0 /\ UNCHANGED <<saveQueue, stores, unsaved>>

(***************************************************************************)
(* Auth functions, service.js:143-183.                                     *)
(***************************************************************************)
\* a login that looks the account up and does not compare the password
login_IgnoresPassword(email, password) ==
    IF ~Truthy(email)
    THEN reject("login", "Must provide an email for user login")
         /\ UNCHANGED memory /\ NoMutation
    ELSE IF ~Truthy(password)
    THEN reject("login", "Must provide a password for user login")
         /\ UNCHANGED memory /\ NoMutation
    ELSE IF email \in keys(users)
    THEN /\ users' = [users EXCEPT ![email].sessionActive = TRUE]
         /\ resolve("login", "token")
         /\ UNCHANGED <<listings, bookings>> /\ Mutation
    ELSE reject("login", "Invalid email or password")
         /\ UNCHANGED memory /\ NoMutation

login(email, password) ==
    IF ~Truthy(email)
    THEN reject("login", "Must provide an email for user login")
         /\ UNCHANGED memory /\ NoMutation
    ELSE IF ~Truthy(password)
    THEN reject("login", "Must provide a password for user login")
         /\ UNCHANGED memory /\ NoMutation
    ELSE IF email \in keys(users) /\ users[email].password = password
    THEN /\ users' = [users EXCEPT ![email].sessionActive = TRUE]
         /\ resolve("login", "token")
         /\ UNCHANGED <<listings, bookings>> /\ Mutation
    ELSE reject("login", "Invalid email or password")
         /\ UNCHANGED memory /\ NoMutation

logout(email) ==
    IF email \notin keys(users)
    THEN throwTypeError("logout") /\ UNCHANGED memory /\ NoMutation
    ELSE /\ users' = [users EXCEPT ![email].sessionActive = FALSE]
         /\ resolve("logout", UNDEF)
         /\ UNCHANGED <<listings, bookings>> /\ Mutation

register(email, password, name) ==
    IF ~Truthy(email)
    THEN reject("register", "Must provide an email for user registration")
         /\ UNCHANGED memory /\ NoMutation
    ELSE IF ~Truthy(password)
    THEN reject("register", "Must provide a password for user registration")
         /\ UNCHANGED memory /\ NoMutation
    ELSE IF ~Truthy(name)
    THEN reject("register", "Must provide a name for user registration")
         /\ UNCHANGED memory /\ NoMutation
    ELSE IF email \in keys(users)
    THEN reject("register", "Email address already registered")
         /\ UNCHANGED memory /\ NoMutation
    ELSE /\ users' = Put(users, email,
                         [name |-> name, password |-> password, sessionActive |-> TRUE])
         /\ resolve("register", "token")
         /\ UNCHANGED <<listings, bookings>> /\ Mutation

(***************************************************************************)
(* Listing functions, service.js:189-336.                                  *)
(***************************************************************************)
newListingPayload(title, owner, address, price, thumbnail, metadata) ==
    [title |-> title, owner |-> owner, address |-> address, price |-> price,
     thumbnail |-> thumbnail, metadata |-> metadata, reviews |-> <<>>,
     availability |-> <<>>, published |-> FALSE, postedOn |-> NULL]

\* Object.keys(listings).find((key) => listings[key].title === title) !== undefined
TitleTaken(title) == \E key \in keys(listings) : listings[key].title = title

\* addListing without the duplicate-title branch of line 228
addListing_NoTitleCheck(title, email, address, price, thumbnail, metadata) ==
    IF title = UNDEF
    THEN reject("addListing", "Must provide a title for new listing")
         /\ UNCHANGED memory /\ NoMutation
    ELSE IF address = UNDEF
    THEN reject("addListing", "Must provide an address for new listing")
         /\ UNCHANGED memory /\ NoMutation
    ELSE IF price = UNDEF \/ isNaN(price)
    THEN reject("addListing", "Must provide a valid price for new listing")
         /\ UNCHANGED memory /\ NoMutation
    ELSE IF thumbnail = UNDEF
    THEN reject("addListing", "Must provide a thumbnail for new listing")
         /\ UNCHANGED memory /\ NoMutation
    ELSE IF metadata = UNDEF
    THEN reject("addListing", "Must provide property details for this listing")
         /\ UNCHANGED memory /\ NoMutation
    ELSE \E id \in newListingId :
            /\ listings' = Put(listings, id,
                   newListingPayload(title, email, address, price, thumbnail, metadata))
            /\ resolve("addListing", id)
            /\ UNCHANGED <<users, bookings>> /\ Mutation

addListing(title, email, address, price, thumbnail, metadata) ==
    IF title = UNDEF
    THEN reject("addListing", "Must provide a title for new listing")
         /\ UNCHANGED memory /\ NoMutation
    ELSE IF TitleTaken(title)
    THEN reject("addListing", "A listing with this title already exists")
         /\ UNCHANGED memory /\ NoMutation
    ELSE IF address = UNDEF
    THEN reject("addListing", "Must provide an address for new listing")
         /\ UNCHANGED memory /\ NoMutation
    ELSE IF price = UNDEF \/ isNaN(price)
    THEN reject("addListing", "Must provide a valid price for new listing")
         /\ UNCHANGED memory /\ NoMutation
    ELSE IF thumbnail = UNDEF
    THEN reject("addListing", "Must provide a thumbnail for new listing")
         /\ UNCHANGED memory /\ NoMutation
    ELSE IF metadata = UNDEF
    THEN reject("addListing", "Must provide property details for this listing")
         /\ UNCHANGED memory /\ NoMutation
    ELSE \E id \in newListingId :
            /\ listings' = Put(listings, id,
                   newListingPayload(title, email, address, price, thumbnail, metadata))
            /\ resolve("addListing", id)
            /\ UNCHANGED <<users, bookings>> /\ Mutation

\* the five `if (x) listings[listingId].x = x` statements, on an existing listing
Patched(l, title, address, thumbnail, price, metadata) ==
    [l EXCEPT !.address = IF Truthy(address) THEN address ELSE @,
              !.title = IF Truthy(title) THEN title ELSE @,
              !.thumbnail = IF Truthy(thumbnail) THEN thumbnail ELSE @,
              !.price = IF Truthy(price) THEN price ELSE @,
              !.metadata = IF Truthy(metadata) THEN metadata ELSE @]

updateListing(listingId, title, address, thumbnail, price, metadata) ==
    LET anyField == \E x \in {address, title, thumbnail, price, metadata} : Truthy(x)
    IN
    IF listingId \notin keys(listings) /\ anyField
    THEN throwTypeError("updateListing") /\ UNCHANGED memory /\ NoMutation
    ELSE IF listingId \notin keys(listings)
    THEN resolve("updateListing", UNDEF) /\ UNCHANGED memory /\ NoMutation
    ELSE /\ listings' = [listings EXCEPT ![listingId] =
                            Patched(@, title, address, thumbnail, price, metadata)]
         /\ resolve("updateListing", UNDEF)
         /\ UNCHANGED <<users, bookings>> /\ Mutation

removeListing(listingId) ==
    /\ listings' = Delete(listings, listingId)
    /\ resolve("removeListing", UNDEF)
    /\ UNCHANGED <<users, bookings>> /\ Mutation

\* publishListing that forgets to store the availability (line 301)
publishListing_DropsAvailability(listingId, availability, now) ==
    IF availability = UNDEF_ARRAY
    THEN reject("publishListing", "Must provide listing availability")
         /\ UNCHANGED memory /\ NoMutation
    ELSE IF listingId \notin keys(listings)
    THEN throwTypeError("publishListing") /\ UNCHANGED memory /\ NoMutation
    ELSE IF listings[listingId].published = TRUE
    THEN reject("publishListing", "This listing is already published")
         /\ UNCHANGED memory /\ NoMutation
    ELSE /\ listings' = [listings EXCEPT ![listingId].published = TRUE,
                                         ![listingId].postedOn = now]
         /\ resolve("publishListing", UNDEF)
         /\ UNCHANGED <<users, bookings>> /\ Mutation

publishListing(listingId, availability, now) ==
    IF availability = UNDEF_ARRAY
    THEN reject("publishListing", "Must provide listing availability")
         /\ UNCHANGED memory /\ NoMutation
    ELSE IF listingId \notin keys(listings)
    THEN throwTypeError("publishListing") /\ UNCHANGED memory /\ NoMutation
    ELSE IF listings[listingId].published = TRUE
    THEN reject("publishListing", "This listing is already published")
         /\ UNCHANGED memory /\ NoMutation
    ELSE /\ listings' = [listings EXCEPT ![listingId].availability = availability,
                                         ![listingId].published = TRUE,
                                         ![listingId].postedOn = now]
         /\ resolve("publishListing", UNDEF)
         /\ UNCHANGED <<users, bookings>> /\ Mutation

unpublishListing(listingId) ==
    IF listingId \notin keys(listings)
    THEN throwTypeError("unpublishListing") /\ UNCHANGED memory /\ NoMutation
    ELSE IF listings[listingId].published = FALSE
    THEN reject("unpublishListing", "This listing is already unpublished")
         /\ UNCHANGED memory /\ NoMutation
    ELSE /\ listings' = [listings EXCEPT ![listingId].availability = <<>>,
                                         ![listingId].published = FALSE,
                                         ![listingId].postedOn = NULL]
         /\ resolve("unpublishListing", UNDEF)
         /\ UNCHANGED <<users, bookings>> /\ Mutation

\* a leaveListingReview that stores the review before it validates it
leaveListingReview_PushesFirst(email, listingId, bookingId, review) ==
    IF bookingId \notin keys(bookings)
    THEN reject("leaveListingReview", "Invalid booking ID")
         /\ UNCHANGED memory /\ NoMutation
    ELSE IF listingId \notin keys(listings)
    THEN reject("leaveListingReview", "Invalid listing ID")
         /\ UNCHANGED memory /\ NoMutation
    ELSE /\ listings' = [listings EXCEPT ![listingId].reviews = Append(@, "good")]
         /\ IF bookings[bookingId].owner # email
            THEN reject("leaveListingReview", "User has not stayed at this listing")
            ELSE IF bookings[bookingId].listingId # listingId
            THEN reject("leaveListingReview",
                        "This booking is not associated with this listing ID")
            ELSE IF review = UNDEF
            THEN reject("leaveListingReview", "Must provide review contents")
            ELSE resolve("leaveListingReview", UNDEF)
         /\ UNCHANGED <<users, bookings>> /\ Mutation

leaveListingReview(email, listingId, bookingId, review) ==
    IF bookingId \notin keys(bookings)
    THEN reject("leaveListingReview", "Invalid booking ID")
         /\ UNCHANGED memory /\ NoMutation
    ELSE IF listingId \notin keys(listings)
    THEN reject("leaveListingReview", "Invalid listing ID")
         /\ UNCHANGED memory /\ NoMutation
    ELSE IF bookings[bookingId].owner # email
    THEN reject("leaveListingReview", "User has not stayed at this listing")
         /\ UNCHANGED memory /\ NoMutation
    ELSE IF bookings[bookingId].listingId # listingId
    THEN reject("leaveListingReview", "This booking is not associated with this listing ID")
         /\ UNCHANGED memory /\ NoMutation
    ELSE IF review = UNDEF
    THEN reject("leaveListingReview", "Must provide review contents")
         /\ UNCHANGED memory /\ NoMutation
    ELSE /\ listings' = [listings EXCEPT ![listingId].reviews = Append(@, review)]
         /\ resolve("leaveListingReview", UNDEF)
         /\ UNCHANGED <<users, bookings>> /\ Mutation

(***************************************************************************)
(* Booking functions, service.js:342-426.                                  *)
(***************************************************************************)
newBookingPayload(owner, dateRange, totalPrice, listingId) ==
    [owner |-> owner, dateRange |-> dateRange, totalPrice |-> totalPrice,
     listingId |-> listingId, status |-> "pending"]

\* a makeNewBooking without the test of line 358
makeNewBooking_IgnoresPublished(owner, dateRange, totalPrice, listingId) ==
    IF listingId \notin keys(listings)
    THEN reject("makeNewBooking", "Invalid listing ID")
         /\ UNCHANGED memory /\ NoMutation
    ELSE IF dateRange = UNDEF
    THEN reject("makeNewBooking", "Must provide a valid date range for the booking")
         /\ UNCHANGED memory /\ NoMutation
    ELSE IF totalPrice = UNDEF \/ totalPrice \in NegativeStrings \/ isNaN(totalPrice)
    THEN reject("makeNewBooking", "Must provide a valid total price for this booking")
         /\ UNCHANGED memory /\ NoMutation
    ELSE IF listings[listingId].owner = owner
    THEN reject("makeNewBooking", "Cannot make bookings for your own listings")
         /\ UNCHANGED memory /\ NoMutation
    ELSE \E id \in newBookingId :
            /\ bookings' = Put(bookings, id,
                               newBookingPayload(owner, dateRange, totalPrice, listingId))
            /\ resolve("makeNewBooking", id)
            /\ UNCHANGED <<users, listings>> /\ Mutation

makeNewBooking(owner, dateRange, totalPrice, listingId) ==
    IF listingId \notin keys(listings)
    THEN reject("makeNewBooking", "Invalid listing ID")
         /\ UNCHANGED memory /\ NoMutation
    ELSE IF dateRange = UNDEF
    THEN reject("makeNewBooking", "Must provide a valid date range for the booking")
         /\ UNCHANGED memory /\ NoMutation
    ELSE IF totalPrice = UNDEF \/ totalPrice \in NegativeStrings \/ isNaN(totalPrice)
    THEN reject("makeNewBooking", "Must provide a valid total price for this booking")
         /\ UNCHANGED memory /\ NoMutation
    ELSE IF listings[listingId].owner = owner
    THEN reject("makeNewBooking", "Cannot make bookings for your own listings")
         /\ UNCHANGED memory /\ NoMutation
    ELSE IF listings[listingId].published = FALSE
    THEN reject("makeNewBooking", "Cannot make a booking for an unpublished listing")
         /\ UNCHANGED memory /\ NoMutation
    ELSE \E id \in newBookingId :
            /\ bookings' = Put(bookings, id,
                               newBookingPayload(owner, dateRange, totalPrice, listingId))
            /\ resolve("makeNewBooking", id)
            /\ UNCHANGED <<users, listings>> /\ Mutation

removeBooking(bookingId) ==
    /\ bookings' = Delete(bookings, bookingId)
    /\ resolve("removeBooking", UNDEF)
    /\ UNCHANGED <<users, listings>> /\ Mutation

\* Object.keys(listings).find((key) => key === bookings[bookingId].listingId
\*                                     && listings[key].owner === owner) !== undefined
OwnsListingOf(owner, bookingId) ==
    \E key \in keys(listings) :
        key = bookings[bookingId].listingId /\ listings[key].owner = owner

\* acceptBooking without the terminal-state branches of lines 399-402
acceptBooking_NoTerminalCheck(owner, bookingId) ==
    IF bookingId \notin keys(bookings)
    THEN reject("acceptBooking", "Invalid booking ID")
         /\ UNCHANGED memory /\ NoMutation
    ELSE IF ~OwnsListingOf(owner, bookingId)
    THEN reject("acceptBooking", "Cannot accept bookings for a listing that isn't yours")
         /\ UNCHANGED memory /\ NoMutation
    ELSE /\ bookings' = [bookings EXCEPT ![bookingId].status = "accepted"]
         /\ resolve("acceptBooking", UNDEF)
         /\ UNCHANGED <<users, listings>> /\ Mutation

acceptBooking(owner, bookingId) ==
    IF bookingId \notin keys(bookings)
    THEN reject("acceptBooking", "Invalid booking ID")
         /\ UNCHANGED memory /\ NoMutation
    ELSE IF ~OwnsListingOf(owner, bookingId)
    THEN reject("acceptBooking", "Cannot accept bookings for a listing that isn't yours")
         /\ UNCHANGED memory /\ NoMutation
    ELSE IF bookings[bookingId].status = "accepted"
    THEN reject("acceptBooking", "Booking has already been accepted")
         /\ UNCHANGED memory /\ NoMutation
    ELSE IF bookings[bookingId].status = "declined"
    THEN reject("acceptBooking", "Booking has already been declined")
         /\ UNCHANGED memory /\ NoMutation
    ELSE /\ bookings' = [bookings EXCEPT ![bookingId].status = "accepted"]
         /\ resolve("acceptBooking", UNDEF)
         /\ UNCHANGED <<users, listings>> /\ Mutation

declineBooking(owner, bookingId) ==
    IF bookingId \notin keys(bookings)
    THEN reject("declineBooking", "Invalid booking ID")
         /\ UNCHANGED memory /\ NoMutation
    ELSE IF ~OwnsListingOf(owner, bookingId)
    THEN reject("declineBooking", "Cannot accept bookings for a listing that isn't yours")
         /\ UNCHANGED memory /\ NoMutation
    ELSE IF bookings[bookingId].status = "declined"
    THEN reject("declineBooking", "Booking has already been declined")
         /\ UNCHANGED memory /\ NoMutation
    ELSE IF bookings[bookingId].status = "accepted"
    THEN reject("declineBooking", "Booking has already been accepted")
         /\ UNCHANGED memory /\ NoMutation
    ELSE /\ bookings' = [bookings EXCEPT ![bookingId].status = "declined"]
         /\ resolve("declineBooking", UNDEF)
         /\ UNCHANGED <<users, listings>> /\ Mutation

(***************************************************************************)
(* Persistence, service.js:28-103.                                         *)
(***************************************************************************)
\* a stored document {users, listings, bookings}, or no (readable) document
Snapshot(u, l, b) == [kind |-> "data", users |-> u, listings |-> l, bookings |-> b]
Absent == [kind |-> "absent", users |-> EmptyObj, listings |-> EmptyObj, bookings |-> EmptyObj]
EmptySnapshot == Snapshot(EmptyObj, EmptyObj, EmptyObj)

\* a document left by an earlier run of the service
SeedSnapshot ==
    Snapshot(
        Put(EmptyObj, "a@x.com", [name |-> "Ann", password |-> "pw", sessionActive |-> TRUE]),
        Put(EmptyObj, Str(0),
            [newListingPayload("Loft", "a@x.com", "1 Rd", "100", "t.png", "{}")
                EXCEPT !.availability = <<"2026-11">>, !.published = TRUE,
                       !.postedOn = "2026-11-02T00:00:00.000Z"]),
        Put(EmptyObj, Str(0), newBookingPayload("b@x.com", "2026-11", "100", Str(0))))
StoredDocuments == {Absent, SeedSnapshot}

\* the last business call is forgotten when the collections are replaced
NoCall == [op |-> "none", status |-> "none", kind |-> "none", val |-> UNDEF]

\* A task of lock key 'saveData': one update(users, listings, bookings) call.
\* ref tells which objects the call was given: "live" the objects the module
\* variables still name, "frozen" objects the module has replaced since (their
\* content, which no operation can reach any more, is snap), "fresh" the three
\* {} literals of reset (snap is the empty document).
Task(op, ref, snap) ==
    [op |-> op, ref |-> ref, snap |-> snap, sent |-> Absent, pc |-> "queued",
     fails |-> 0, mutated |-> FALSE]

\* the content of the objects a task was given, read now
Captured(e) == IF e.ref = "live" THEN Snapshot(users, listings, bookings) ELSE e.snap

\* users = ...; listings = ...; bookings = ...: the old objects keep their content
Freeze(q) ==
    [i \in DOMAIN q |-> IF q[i].ref = "live"
                        THEN [q[i] EXCEPT !.ref = "frozen",
                                          !.snap = Snapshot(users, listings, bookings)]
                        ELSE q[i]]

\* update's promise settles: save() settles with it, reset() goes on to line 100
\* when it resolved and rejects when it rejected
SaveSettled(e, status, fails) ==
    [op |-> e.op, status |-> status, fails |-> fails, n |-> 1 - saveRet.n,
     val |-> IF status = "rejected" THEN "Writing to storage failed" ELSE UNDEF]

\* a task whose body has ended keeps the lock until the lock's own
\* continuation runs; nothing reads what it held any more
Finished(e) == [Task(e.op, "fresh", EmptySnapshot) EXCEPT !.pc = "finished"]

AfterWrite(e, ok, fails) ==
    IF ok /\ e.op = "reset"
    THEN [e EXCEPT !.fails = fails, !.sent = Absent, !.pc = "resolved"]
    ELSE Finished(e)

\* the outcomes of the file writes of one task
WriteOutcomes == {"ok", "fallback", "fail"}

\* the body of the lock's task up to its first suspension (lines 66-93),
\* as [entry, file, settled, ret]; w is the outcome of the file writes
\* when there is no remote backend
Started(e, w) ==
    IF hasRedisCredentials
    THEN [entry |-> [e EXCEPT !.pc = "awaitSet", !.sent = Captured(e)],
          file |-> fileData, settles |-> FALSE, sret |-> saveRet]
    ELSE LET fails == CASE w = "ok" -> 0 [] w = "fallback" -> 1 [] OTHER -> 2
             ok == w # "fail"
         IN [entry |-> AfterWrite(e, ok, fails),
             file |-> IF ok THEN Captured(e) ELSE fileData,
             settles |-> ~(ok /\ e.op = "reset"),
             sret |-> SaveSettled(e, IF ok THEN "resolved" ELSE "rejected", fails)]

\* lock.acquire('saveData', fn): fn runs at once when nobody holds the lock
Acquire(e, w) ==
    /\ Len(saveQueue) < MaxQueue
    /\ IF saveQueue = <<>>
       THEN LET s == Started(e, w) IN
            /\ saveQueue' = <<s.entry>>
            /\ fileData' = s.file
            /\ saveRet' = IF s.settles THEN s.sret ELSE saveRet
       ELSE /\ saveQueue' = Append(saveQueue, e)
            /\ UNCHANGED <<fileData, saveRet>>
    /\ UNCHANGED <<memory, hasRedisCredentials, loadPc, remoteData, ret, lockLog>>

\* update(users, listings, bookings), lines 63-95, up to the first suspension
update(op, ref, w) == Acquire(Task(op, ref, EmptySnapshot), w)

\* reset handing update the live collections instead of three {} (line 99)
resetCall_SavesCurrent(w) == update("reset", "live", w) /\ UNCHANGED <<resetRun, unsaved>>

\* save(), line 97
save(w) == update("save", "live", w) /\ resetRun' = 0 /\ unsaved' = FALSE

\* reset() up to its await, line 99
resetCall(w) == update("reset", "fresh", w) /\ UNCHANGED <<resetRun, unsaved>>

\* redis.set resolved, lines 69-81
redisSetOk ==
    /\ saveQueue # <<>> /\ Head(saveQueue).pc = "awaitSet"
    /\ LET e == Head(saveQueue) IN
       /\ remoteData' = e.sent
       /\ saveQueue' = <<AfterWrite(e, TRUE, 0)>> \o Tail(saveQueue)
       /\ saveRet' = IF e.op = "reset" THEN saveRet ELSE SaveSettled(e, "resolved", 0)
    /\ UNCHANGED <<memory, hasRedisCredentials, loadPc, fileData, ret, resetRun, unsaved, lockLog>>

\* the catch block of line 82 without its fallback: the error is passed on
redisSetFail_NoFallback(fileOk) ==
    /\ saveQueue # <<>> /\ Head(saveQueue).pc = "awaitSet"
    /\ saveQueue' = <<Finished(Head(saveQueue))>> \o Tail(saveQueue)
    /\ saveRet' = SaveSettled(Head(saveQueue), "rejected", 1)
    /\ UNCHANGED <<memory, hasRedisCredentials, loadPc, remoteData, fileData, ret, resetRun, unsaved, lockLog>>

\* the fallback of line 86 serialising { users } alone
redisSetFail_UsersOnly(fileOk) ==
    /\ saveQueue # <<>> /\ Head(saveQueue).pc = "awaitSet"
    /\ LET e == Head(saveQueue)
           fails == IF fileOk THEN 1 ELSE 2
       IN
       /\ fileData' = IF fileOk THEN Snapshot(Captured(e).users, EmptyObj, EmptyObj)
                      ELSE fileData
       /\ saveQueue' = <<AfterWrite(e, fileOk, fails)>> \o Tail(saveQueue)
       /\ saveRet' = IF fileOk /\ e.op = "reset" THEN saveRet
                     ELSE SaveSettled(e, IF fileOk THEN "resolved" ELSE "rejected", fails)
    /\ UNCHANGED <<memory, hasRedisCredentials, loadPc, remoteData, ret, resetRun, unsaved, lockLog>>

\* redis.set threw, lines 82-92: the file is written instead
redisSetFail(fileOk) ==
    /\ saveQueue # <<>> /\ Head(saveQueue).pc = "awaitSet"
    /\ LET e == Head(saveQueue)
           fails == IF fileOk THEN 1 ELSE 2
       IN
       /\ fileData' = IF fileOk THEN Captured(e) ELSE fileData
       /\ saveQueue' = <<AfterWrite(e, fileOk, fails)>> \o Tail(saveQueue)
       /\ saveRet' = IF fileOk /\ e.op = "reset" THEN saveRet
                     ELSE SaveSettled(e, IF fileOk THEN "resolved" ELSE "rejected", fails)
    /\ UNCHANGED <<memory, hasRedisCredentials, loadPc, remoteData, ret, resetRun, unsaved, lockLog>>

\* reset() after its await, lines 100-102
resetFinish ==
    /\ saveQueue # <<>> /\ Head(saveQueue).pc = "resolved"
    /\ users' = EmptyObj /\ listings' = EmptyObj /\ bookings' = EmptyObj
    /\ saveQueue' = <<Finished(Head(saveQueue))>> \o Freeze(Tail(saveQueue))
    /\ saveRet' = SaveSettled(Head(saveQueue), "resolved", Head(saveQueue).fails)
    /\ ret' = NoCall
    /\ resetRun' = IF resetRun < 2 THEN resetRun + 1 ELSE 2
    /\ UNCHANGED <<hasRedisCredentials, loadPc, remoteData, fileData, unsaved, lockLog>>

\* a lock that passes to the task that has waited least
release_StartsNewest(w) ==
    /\ saveQueue # <<>> /\ Head(saveQueue).pc = "finished"
    /\ IF Tail(saveQueue) = <<>>
       THEN saveQueue' = <<>> /\ UNCHANGED <<fileData, saveRet>>
       ELSE LET waiting == Tail(saveQueue)
                s == Started(waiting[Len(waiting)], w)
            IN
            /\ saveQueue' = <<s.entry>> \o SubSeq(waiting, 1, Len(waiting) - 1)
            /\ fileData' = s.file
            /\ saveRet' = IF s.settles THEN s.sret ELSE saveRet
    /\ UNCHANGED <<memory, hasRedisCredentials, loadPc, remoteData, ret, resetRun, unsaved, lockLog>>

\* the lock's task is over: the lock passes to the next task, which starts
release(w) ==
    /\ saveQueue # <<>> /\ Head(saveQueue).pc = "finished"
    /\ IF Tail(saveQueue) = <<>>
       THEN saveQueue' = <<>> /\ UNCHANGED <<fileData, saveRet>>
       ELSE LET s == Started(Head(Tail(saveQueue)), w) IN
            /\ saveQueue' = <<s.entry>> \o Tail(Tail(saveQueue))
            /\ fileData' = s.file
            /\ saveRet' = IF s.settles THEN s.sret ELSE saveRet
    /\ UNCHANGED <<memory, hasRedisCredentials, loadPc, remoteData, ret, resetRun, unsaved, lockLog>>

(***************************************************************************)
(* loadData, service.js:31-61.  Without the remote backend the function    *)
(* has no await and ends inside the call of line 61; with it, the rest of  *)
(* the function runs when redis.get settles.                               *)
(***************************************************************************)
\* lines 36-38 and 51-53: the three variables name new objects
Loaded(data) ==
    /\ users' = data.users /\ listings' = data.listings /\ bookings' = data.bookings
    /\ saveQueue' = Freeze(saveQueue)
    /\ ret' = NoCall

\* lines 48-57: a file that is missing or unreadable leaves the variables alone
readFile ==
    IF fileData.kind = "data"
    THEN Loaded(fileData)
    ELSE UNCHANGED <<memory, saveQueue, ret>>

\* redis.get returned a document
loadFromRedis ==
    /\ loadPc = "awaitGet" /\ remoteData.kind = "data"
    /\ Loaded(remoteData)
    /\ loadPc' = "done" /\ resetRun' = 0
    /\ UNCHANGED <<hasRedisCredentials, remoteData, fileData, saveRet, unsaved, lockLog>>

\* redis.get returned null (cause "absent") or threw (cause "error")
loadFallback(cause) ==
    /\ loadPc = "awaitGet"
    /\ cause = "absent" => remoteData.kind = "absent"
    /\ readFile
    /\ loadPc' = "done" /\ resetRun' = 0
    /\ UNCHANGED <<hasRedisCredentials, remoteData, fileData, saveRet, unsaved, lockLog>>

(***************************************************************************)
(* The state once the module has been evaluated.                           *)
(***************************************************************************)
InitStores(redis, remote, file) ==
    /\ hasRedisCredentials = redis
    /\ remoteData = remote
    /\ fileData = file
    /\ loadPc = IF redis THEN "awaitGet" ELSE "done"
    /\ LET start == IF ~redis /\ file.kind = "data" THEN file ELSE EmptySnapshot IN
       users = start.users /\ listings = start.listings /\ bookings = start.bookings
    /\ saveQueue = <<>>
    /\ ret = NoCall
    /\ resetRun = 0
    /\ unsaved = FALSE
    /\ saveRet = [op |-> "none", status |-> "none", fails |-> 0, n |-> 0, val |-> UNDEF]

Init ==
    \E redis \in BOOLEAN, remote \in StoredDocuments, file \in StoredDocuments :
        /\ ~redis => remote = Absent
        /\ InitStores(redis, remote, file)
        /\ lockLog = NoLog

\* the state once loadData has ended, no call having been made before
InitLoaded ==
    \E redis \in BOOLEAN, remote \in StoredDocuments, file \in StoredDocuments :
        /\ ~redis => remote = Absent
        /\ hasRedisCredentials = redis /\ remoteData = remote /\ fileData = file
        /\ loadPc = "done"
        /\ LET start == IF redis /\ remote.kind = "data" THEN remote
                        ELSE IF file.kind = "data" THEN file ELSE EmptySnapshot
           IN users = start.users /\ listings = start.listings /\ bookings = start.bookings
        /\ saveQueue = <<>>
        /\ ret = NoCall
        /\ resetRun = 0
        /\ unsaved = FALSE
        /\ saveRet = [op |-> "none", status |-> "none", fails |-> 0, n |-> 0, val |-> UNDEF]
        /\ lockLog = NoLog

\* no remote backend and no file: the empty store
InitEmpty == InitStores(FALSE, Absent, Absent) /\ lockLog = NoLog
\* the empty store, with the calls of resourceLock recorded
InitLock == InitStores(FALSE, Absent, Absent) /\ lockLog = LockLog(MaxCalls)

(***************************************************************************)
(* Calls with their inputs.                                                *)
(***************************************************************************)
Register == \E e \in Emails \cup {UNDEF}, p \in Passwords \cup {UNDEF}, n \in Names \cup {UNDEF} :
                resourceLock("register", register(e, p, n))
\* one account that the seed document does not hold
RegisterBob == resourceLock("register", register("b@x.com", "pw", "Bob"))
Login == \E e \in Emails \cup {UNDEF}, p \in Passwords \cup {UNDEF, "wrong"} : resourceLock("login", login(e, p))
Logout == \E e \in Emails : resourceLock("logout", logout(e))

AddListing ==
    \E title \in Titles \cup {UNDEF}, email \in Emails, fault \in AddListingFaults :
        resourceLock("addListing", addListing(title, email,
                   IF fault = "address" THEN UNDEF ELSE "1 Rd",
                   CASE fault = "price" -> UNDEF [] fault = "priceNaN" -> "abc" [] OTHER -> "100",
                   IF fault = "thumbnail" THEN UNDEF ELSE "t.png",
                   IF fault = "metadata" THEN UNDEF ELSE "{}"))
\* listings of one owner under one title
AddLoft == resourceLock("addListing", addListing("Loft", "a@x.com", "1 Rd", "100", "t.png", "{}"))
AddTitled == \E title \in Titles :
    resourceLock("addListing", addListing(title, "a@x.com", "1 Rd", "100", "t.png", "{}"))
UpdateListing ==
    \E id \in IdArgs, title \in Titles \cup {UNDEF}, address \in {UNDEF, "1 Rd"} :
        resourceLock("updateListing", updateListing(id, title, address, UNDEF, UNDEF, UNDEF))
RemoveListing == \E id \in IdArgs : resourceLock("removeListing", removeListing(id))
PublishListing ==
    \E id \in IdArgs, availability \in Availabilities \cup {UNDEF_ARRAY}, now \in Timestamps :
        resourceLock("publishListing", publishListing(id, availability, now))
PublishPlain == \E id \in IdArgs, now \in Timestamps : resourceLock("publishListing", publishListing(id, <<"2026-11">>, now))
UnpublishListing == \E id \in IdArgs : resourceLock("unpublishListing", unpublishListing(id))

\* the reviews of one listing are kept to MaxReviews
LeaveListingReview ==
    \E email \in Emails, listingId \in IdArgs, bookingId \in IdArgs, review \in Reviews \cup {UNDEF} :
        /\ listingId \in keys(listings) => Len(listings[listingId].reviews) < MaxReviews
        /\ resourceLock("leaveListingReview",
                        leaveListingReview(email, listingId, bookingId, review))

\* the calls on one account
RegisterPlain == \E e \in {"b@x.com", UNDEF} :
                    resourceLock("register", register(e, "pw", "Bob"))
LoginPlain == \E p \in {"pw", "wrong"} : resourceLock("login", login("b@x.com", p))

MakeNewBooking ==
    \E owner \in Emails, id \in IdArgs, fault \in BookingFaults :
        resourceLock("makeNewBooking", makeNewBooking(owner,
                       IF fault = "dateRange" THEN UNDEF ELSE "2026-11",
                       CASE fault = "totalPrice" -> UNDEF
                         [] fault = "totalPriceNaN" -> "abc"
                         [] fault = "totalPriceNegative" -> "-5"
                         [] OTHER -> "100",
                       id))
BookPlain == \E owner \in Emails, id \in IdArgs : resourceLock("makeNewBooking", makeNewBooking(owner, "2026-11", "100", id))
BookAsGuest == \E id \in IdArgs :
    resourceLock("makeNewBooking", makeNewBooking("b@x.com", "2026-11", "100", id))
RemoveBooking == \E id \in IdArgs : resourceLock("removeBooking", removeBooking(id))
AcceptBooking == \E owner \in Emails, id \in IdArgs : resourceLock("acceptBooking", acceptBooking(owner, id))
DeclineBooking == \E owner \in Emails, id \in IdArgs : resourceLock("declineBooking", declineBooking(owner, id))

Save == \E w \in WriteOutcomes : save(w)
ResetCall == \E w \in WriteOutcomes : resetCall(w)
RedisSetOk == redisSetOk
\* the calls and steps of update whose first write succeeds
SaveOk == save("ok")
ResetOk == resetCall("ok")
ReleaseOk == release("ok")
RedisSetFail == \E fileOk \in BOOLEAN : redisSetFail(fileOk)
ResetFinish == resetFinish
Release == \E w \in WriteOutcomes : release(w)
LoadFromRedis == loadFromRedis
LoadFallback == \E cause \in {"absent", "error"} : loadFallback(cause)

(***************************************************************************)
(* Specifications.                                                         *)
(***************************************************************************)
\* the listing operations on the empty store
NextListings ==
    \/ AddListing \/ UpdateListing \/ RemoveListing
    \/ PublishListing \/ UnpublishListing

\* the booking operations, with the listing operations they depend on
NextBookings ==
    \/ AddLoft \/ RemoveListing \/ PublishPlain
    \/ BookPlain \/ RemoveBooking \/ AcceptBooking \/ DeclineBooking

\* the operations that validate their input, on one account and one title
NextFrame ==
    \/ RegisterPlain \/ LoginPlain
    \/ AddLoft \/ PublishPlain \/ UnpublishListing \/ LeaveListingReview
    \/ MakeNewBooking \/ AcceptBooking \/ DeclineBooking

\* listings of one owner under two titles, their bookings and reviews
NextReviews ==
    \/ AddTitled \/ UpdateListing \/ RemoveListing \/ PublishPlain
    \/ BookAsGuest \/ LeaveListingReview

\* persistence with one mutation
NextPersist ==
    \/ RegisterBob
    \/ Save \/ ResetCall \/ RedisSetOk \/ RedisSetFail \/ ResetFinish \/ Release
    \/ LoadFromRedis \/ LoadFallback

\* the account operations
NextAuth == Register \/ Login \/ Logout

\* persistence after the load, when no write to a backend fails
NextDurable ==
    \/ RegisterBob
    \/ SaveOk \/ ResetOk \/ RedisSetOk \/ ResetFinish \/ ReleaseOk

Next ==
    \/ Register \/ Login \/ Logout
    \/ AddListing \/ UpdateListing \/ RemoveListing
    \/ PublishListing \/ UnpublishListing \/ LeaveListingReview
    \/ MakeNewBooking \/ RemoveBooking \/ AcceptBooking \/ DeclineBooking
    \/ Save \/ ResetCall \/ RedisSetOk \/ RedisSetFail \/ ResetFinish \/ Release
    \/ LoadFromRedis \/ LoadFallback

Spec == Init /\ [][Next]_vars
SpecListings == InitEmpty /\ [][NextListings]_vars
SpecBookings == InitEmpty /\ [][NextBookings]_vars
SpecPersist == Init /\ [][NextPersist]_vars
SpecFrame == InitEmpty /\ [][NextFrame]_vars
SpecReviews == InitEmpty /\ [][NextReviews]_vars
SpecDurable == InitLoaded /\ [][NextDurable]_vars
SpecAuth == InitEmpty /\ [][NextAuth]_vars
SpecLock == InitLock /\ [][NextAuth]_vars

(***************************************************************************)
(* Properties.                                                             *)
(***************************************************************************)
DuplicateTitle == "A listing with this title already exists"
AlreadyAccepted == "Booking has already been accepted"
AlreadyDeclined == "Booking has already been declined"
NotYourListing == "Cannot accept bookings for a listing that isn't yours"
AlreadyPublished == "This listing is already published"
NoAvailability == "Must provide listing availability"

\* C1: an addListing that succeeds returns an id that was not a key of
\* listings when it was called, so it adds one record and overwrites none.
C1_FreshId ==
    [][(AddListing /\ ret'.op = "addListing" /\ ret'.status = "resolved")
        => /\ ret'.val \notin keys(listings)
           /\ Cardinality(keys(listings')) = Cardinality(keys(listings)) + 1]_vars

\* C2: no two live listings have the same title.
C2_TitlesUnique ==
    \A i \in keys(listings), j \in keys(listings) :
        i # j => listings[i].title # listings[j].title

\* C3: of two addListing calls made one after the other with the same title
\* and valid fields, the title being free before the first, the first
\* succeeds and the second is rejected with the duplicate-title conflict
\* and inserts nothing.
C3_ExactlyOneSucceeds ==
    [][\A title \in Titles, email \in Emails :
          addListing(title, email, "1 Rd", "100", "t.png", "{}")
          => /\ ~TitleTaken(title) => ret'.status = "resolved"
             /\ (/\ ret.op = "addListing" /\ ret.status = "resolved"
                 /\ listings[ret.val].title = title)
                => /\ ret'.status = "rejected" /\ ret'.val = DuplicateTitle
                   /\ listings' = listings]_vars

\* the second call of such a pair has been rejected: the one listing is the
\* first call's
C3_Witness ==
    /\ ret.op = "addListing" /\ ret.status = "rejected" /\ ret.val = DuplicateTitle
    /\ Cardinality(keys(listings)) = 1

Terminal(bookingId) ==
    bookingId \in keys(bookings) /\ bookings[bookingId].status \in {"accepted", "declined"}

\* C4 as stated: every acceptBooking or declineBooking call on a booking
\* that is accepted or declined is rejected with 'Booking has already been
\* accepted' or 'Booking has already been declined' and leaves the
\* bookings as they are.
C4_TerminalConflict ==
    [][\A owner \in Emails, bookingId \in IdArgs :
          ((acceptBooking(owner, bookingId) \/ declineBooking(owner, bookingId))
              /\ Terminal(bookingId))
          => /\ ret'.status = "rejected"
             /\ ret'.val \in {AlreadyAccepted, AlreadyDeclined}
             /\ bookings' = bookings]_vars

\* C4 as amended: every such call is rejected and leaves the bookings as
\* they are; the error names the booking's status when the caller owns the
\* live listing the booking refers to, and is the ownership error otherwise.
C4_TerminalRejected ==
    [][\A owner \in Emails, bookingId \in IdArgs :
          ((acceptBooking(owner, bookingId) \/ declineBooking(owner, bookingId))
              /\ Terminal(bookingId))
          => /\ ret'.status = "rejected"
             /\ ret'.val = IF ~OwnsListingOf(owner, bookingId) THEN NotYourListing
                           ELSE IF bookings[bookingId].status = "accepted"
                                THEN AlreadyAccepted ELSE AlreadyDeclined
             /\ bookings' = bookings]_vars

\* a declined booking has just been refused a second settlement
C4_Witness ==
    /\ ret.op = "acceptBooking" /\ ret.status = "rejected" /\ ret.val = AlreadyDeclined
    /\ \E b \in keys(bookings) : bookings[b].status = "declined"

\* C5 as stated, on the state: a publishListing on a listing that is
\* published is rejected with 'This listing is already published' and
\* changes nothing.
C5_SecondPublishMessage ==
    [][\A id \in IdArgs, availability \in Availabilities \cup {UNDEF_ARRAY}, now \in Timestamps :
          (/\ publishListing(id, availability, now)
           /\ id \in keys(listings) /\ listings[id].published)
          => ret'.status = "rejected" /\ ret'.val = AlreadyPublished /\ listings' = listings]_vars

\* C5 as amended: a successful publishListing leaves published = true, a
\* postedOn that is not null and the availability passed; a successful
\* unpublishListing leaves published = false, postedOn = null and no
\* availability; a publishListing on a listing that is still published is
\* rejected and changes nothing, with 'This listing is already published'
\* when an availability is passed and 'Must provide listing availability'
\* when it is not.
C5_PublishUnpublish ==
    [][\A id \in IdArgs :
        /\ \A availability \in Availabilities \cup {UNDEF_ARRAY}, now \in Timestamps :
              (publishListing(id, availability, now) /\ id \in keys(listings))
              => IF listings[id].published
                 THEN /\ ret'.status = "rejected" /\ listings' = listings
                      /\ ret'.val = IF availability = UNDEF_ARRAY THEN NoAvailability
                                    ELSE AlreadyPublished
                 ELSE ret'.status = "resolved"
                      => /\ listings'[id].published = TRUE
                         /\ listings'[id].postedOn # NULL
                         /\ listings'[id].availability = availability
        /\ (unpublishListing(id) /\ id \in keys(listings) /\ ret'.status = "resolved")
              => /\ listings'[id].published = FALSE
                 /\ listings'[id].postedOn = NULL
                 /\ listings'[id].availability = <<>>]_vars

\* a published listing has just been refused a second publication
C5_Witness ==
    /\ ret.op = "publishListing" /\ ret.status = "rejected" /\ ret.val = AlreadyPublished
    /\ \E id \in keys(listings) :
          listings[id].published /\ listings[id].availability = <<"2026-11">>

StorageError == "Writing to storage failed"
\* the promise of a save() (of a reset()) settles in this step
SaveSettles == saveRet'.n # saveRet.n /\ saveRet'.op = "save"
ResetSettles == saveRet'.n # saveRet.n /\ saveRet'.op = "reset"
\* the backend a save writes first
PrimaryStore == IF hasRedisCredentials THEN remoteData ELSE fileData
MemoryEmpty == users = EmptyObj /\ listings = EmptyObj /\ bookings = EmptyObj

C7_RejectsIffBothFail ==
    [][/\ SaveSettles
          => /\ saveRet'.status = "rejected" <=> saveRet'.fails = 2
             /\ saveRet'.status = "rejected" => saveRet'.val = StorageError
             /\ saveRet'.status \in {"resolved", "rejected"}
       /\ (SaveSettles \/ Save) => UNCHANGED memory]_vars

\* a save() has been rejected and the collections are still there
C7_Witness ==
    /\ saveRet.op = "save" /\ saveRet.status = "rejected" /\ saveRet.fails = 2
    /\ users # EmptyObj

\* C8: a reset() rejects only when both of its writes failed; when it
\* resolves the three collections are empty, and when none of its writes
\* failed the backend it wrote holds the empty document at that moment;
\* the collections stay empty until the next call or load.
C8_ResetTwice ==
    /\ [](resetRun >= 1 => MemoryEmpty)
    /\ [][ResetSettles
          => /\ saveRet'.status = "rejected" <=> saveRet'.fails = 2
             /\ saveRet'.status = "resolved"
                => users' = EmptyObj /\ listings' = EmptyObj /\ bookings' = EmptyObj
             /\ saveRet'.fails = 0
                => saveRet'.status = "resolved" /\ PrimaryStore' = EmptySnapshot]_vars

\* the second of two reset() calls in a row has completed
C8_Witness ==
    /\ resetRun = 2
    /\ saveRet.op = "reset" /\ saveRet.status = "resolved" /\ saveRet.fails = 0
    /\ MemoryEmpty /\ PrimaryStore = EmptySnapshot

\* C9: when reset() empties the collections, no mutation has been
\* acknowledged since that reset() was called.
C9_ResetAtomic ==
    [][resetFinish => ~Head(saveQueue).mutated]_vars

\* C10: no business operation has run while loadData has not finished.
C10_LoadBeforeOps ==
    loadPc # "done" => ret.op = "none"

ValidatingOps ==
    {"register", "login", "addListing", "publishListing", "unpublishListing",
     "leaveListingReview", "makeNewBooking", "acceptBooking", "declineBooking"}

\* a step of a business call, which ret' then describes: the steps of
\* loadData, update and reset change loadPc, saveRet or the tasks of saveQueue
BusinessStep ==
    UNCHANGED <<loadPc, saveRet>> /\ saveQueue' \in {saveQueue, MarkMutated(saveQueue)}

C12_RejectedChangesNothing ==
    [][BusinessStep /\ ret'.op \in ValidatingOps /\ ret'.status = "rejected"
       => UNCHANGED <<users, listings, bookings>>]_vars

\* a duplicate-title addListing has been rejected on a store that holds an
\* account, a listing and a booking
C12_Witness ==
    /\ ret.op = "addListing" /\ ret.status = "rejected" /\ ret.val = DuplicateTitle
    /\ users # EmptyObj /\ listings # EmptyObj /\ bookings # EmptyObj

(***************************************************************************)
(* The lock of update.                                                     *)
(***************************************************************************)
\* the operations of the tasks of lock key 'saveData', oldest first
QueueOps(q) == [i \in DOMAIN q |-> q[i].op]

\* C13: saves never interleave.  Only the task that holds the lock has
\* started, so at most one backend write (with its fallback) is in progress;
\* and the tasks keep the order of their submission: a step leaves the
\* queue as it is, takes the oldest task away or puts a new one last.
C13_SavesSerialised ==
    [][/\ \A i \in 2 .. Len(saveQueue') : saveQueue'[i].pc = "queued"
       /\ LET before == QueueOps(saveQueue)
              after == QueueOps(saveQueue')
          IN \/ after = before
             \/ before # <<>> /\ after = Tail(before)
             \/ \E op \in {"save", "reset"} : after = Append(before, op)]_vars

\* a remote write is in flight while a save() and a reset() wait, and an
\* earlier save() has completed
C13_Witness ==
    /\ Len(saveQueue) = 3
    /\ saveQueue[1].pc = "awaitSet"
    /\ saveQueue[2].op # saveQueue[3].op
    /\ saveRet.op # "none"

(***************************************************************************)
(* loadData.                                                               *)
(***************************************************************************)
MemoryIs(data) ==
    users = data.users /\ listings = data.listings /\ bookings = data.bookings

\* C14: when loadData ends, the collections hold the remote document if the
\* remote backend returned one; otherwise the document of the local file;
\* and when the file is missing or unreadable as well, the three collections
\* are empty.  loadData raises no error: the step is always possible.
C14_LoadFallsBack ==
    [][/\ loadFromRedis => MemoryIs(remoteData)'
       /\ \A cause \in {"absent", "error"} :
             loadFallback(cause) =>
                 IF fileData.kind = "data" THEN MemoryIs(fileData)' ELSE MemoryEmpty']_vars

(***************************************************************************)
(* The publication fields of a listing.                                    *)
(***************************************************************************)
\* C15: in every state reached from the empty store, each listing has
\* published = true exactly when its postedOn is not null and exactly when
\* its availability is not empty.
C15_GroupConsistent ==
    \A id \in keys(listings) :
        /\ listings[id].published = TRUE <=> listings[id].postedOn # NULL
        /\ listings[id].published = TRUE <=> listings[id].availability # <<>>

(***************************************************************************)
(* The status of a booking.                                                *)
(***************************************************************************)
\* C16: while a booking stays in the collection its status changes only
\* from pending to accepted or from pending to declined: no step takes a
\* booking that is accepted or declined to another status.
C16_StatusMonotone ==
    [][\A id \in keys(bookings) \cap keys(bookings') :
          bookings[id].status # bookings'[id].status
              => /\ bookings[id].status = "pending"
                 /\ bookings'[id].status \in {"accepted", "declined"}]_vars

(***************************************************************************)
(* makeNewBooking.                                                         *)
(***************************************************************************)
\* C17: a makeNewBooking call that resolves has stored, under the id it
\* returns, a pending booking whose listingId was at the call the id of a
\* listing that was published and owned by somebody else, and has changed
\* no other booking; every other makeNewBooking call is rejected and leaves
\* the bookings as they were.
C17_BooksOnlyBookable ==
    [][BusinessStep /\ ret'.op = "makeNewBooking"
       => IF ret'.status = "resolved"
          THEN /\ ret'.val \in keys(bookings')
               /\ LET b == bookings'[ret'.val] IN
                  /\ b.status = "pending"
                  /\ b.listingId \in keys(listings)
                  /\ listings[b.listingId].published = TRUE
                  /\ listings[b.listingId].owner # b.owner
                  /\ bookings' = Put(bookings, ret'.val, b)
          ELSE ret'.status = "rejected" /\ bookings' = bookings]_vars

\* a booking has been made, and a later call on the listing, unpublished
\* since, has been rejected
C17_Witness ==
    /\ ret.op = "makeNewBooking" /\ ret.status = "rejected"
    /\ ret.val = "Cannot make a booking for an unpublished listing"
    /\ \E id \in keys(bookings) :
          /\ bookings[id].status = "pending"
          /\ bookings[id].listingId \in keys(listings)
          /\ listings[bookings[id].listingId].published = FALSE

(***************************************************************************)
(* The reviews of a listing.                                               *)
(***************************************************************************)
IsPrefix(s, t) == Len(s) <= Len(t) /\ SubSeq(t, 1, Len(s)) = s

\* C18: the reviews of a listing are append-only.  While the listing is not
\* removed, a step leaves its reviews as they are or, when the step is a
\* leaveListingReview that resolves, appends exactly one entry.
C18_ReviewsAppendOnly ==
    [][\A id \in keys(listings) \cap keys(listings') :
          LET before == listings[id].reviews
              after == listings'[id].reviews
          IN \/ after = before
             \/ /\ ret'.op = "leaveListingReview" /\ ret'.status = "resolved"
                /\ Len(after) = Len(before) + 1
                /\ IsPrefix(before, after)]_vars

(***************************************************************************)
(* login.                                                                  *)
(***************************************************************************)
\* C19: login(email, password) resolves with a token and sets the
\* account's sessionActive to true exactly when the email is registered and
\* the password equals the stored one; otherwise it is rejected with an
\* input error and no account changes.
C19_LoginIffCredentials ==
    [][\A email \in Emails \cup {UNDEF}, password \in Passwords \cup {UNDEF, "wrong"} :
          login(email, password) =>
              IF email \in keys(users) /\ users[email].password = password
              THEN /\ ret'.status = "resolved" /\ ret'.val = "token"
                   /\ users' = [users EXCEPT ![email].sessionActive = TRUE]
              ELSE /\ ret'.status = "rejected" /\ ret'.kind = InputError
                   /\ users' = users]_vars

\* a login has resolved for an account that had logged out, while the other
\* account, with another password, stays logged out
C19_Witness ==
    /\ ret.op = "login" /\ ret.status = "resolved"
    /\ \E a \in keys(users), b \in keys(users) :
          /\ users[a].sessionActive = TRUE /\ users[b].sessionActive = FALSE
          /\ users[a].password # users[b].password

(***************************************************************************)
(* Durability.                                                             *)
(***************************************************************************)
\* every save() and reset() called has completed
Quiescent == saveQueue = <<>>

\* C20: when no write fails and save() has been called after the last
\* mutation, then once every save() and reset() has completed, one at
\* least, the document in the backend equals the content of users,
\* listings and bookings.
C20_DurableEqualsMemory ==
    Quiescent /\ ~unsaved /\ saveRet.op # "none"
        => PrimaryStore = Snapshot(users, listings, bookings)
====
